---- MODULE Spec2Model ----
(***************************************************************************)
(* Kometizarr: the job orchestrator of web/backend/main.py (single-flight  *)
(* flag, cooperative stop, batch and cron runs, webhook FIFO worker), the   *)
(* poster backup store of src/rating_overlay/backup_manager.py, one item's  *)
(* processing with its rating aggregation (plex_poster_manager.py), the     *)
(* badge compositor (multi_rating_badge.py) and consecutive restore passes  *)
(* over the cache.                                                          *)
(*                                                                         *)
(* The backend is one asyncio event loop.  A coroutine runs without         *)
(* interruption from one suspension point to the next, so the model keeps   *)
(* the set cpu of the task that currently owns the loop: {} when the loop   *)
(* is free to pick any ready task or incoming request, {t} while task t     *)
(* runs a synchronous stretch of code.  asyncio.create_task only schedules  *)
(* a coroutine: the new task is "created" and takes its first step at some  *)
(* later turn of the loop.                                                  *)
(***************************************************************************)
EXTENDS Integers, Sequences, FiniteSets, TLC

\* Largest number of items a library holds (len(all_items)).
MaxItems == 2
\* Largest number of background tasks made by asyncio.create_task that exist at once.
MaxTasks == 2
\* Largest number of webhook events received in one run.
MaxJobs == 2

\* The webhook worker task, created once at startup.
WorkerId == 0

Libs == {"Movies", "Shows"}
\* server.library.sections(), in the host's order.
AllLibraries == <<"Movies", "Shows">>
\* library_names of a batch request.
BatchLists == {<<"Movies", "Shows">>, <<"Shows">>}
\* The two cron jobs, cron_normal and cron_force: (libraries, force).  An empty
\* list means every library of the host.
CronJobs == {<< << >>, FALSE >>, << <<"Shows">>, TRUE >>}

\* len(library.all()) of each library of the host.
LibrarySize(lib) == IF lib = "Movies" THEN MaxItems ELSE 1

TaskIds == 1..MaxTasks
AllIds == {WorkerId} \cup TaskIds

VARIABLES
    processing_state,   \* the module-level dict processing_state
    restore_state,      \* the module-level dict restore_state
    webhook_queue,      \* asyncio.Queue of (library, rating_key, item_title)
    tasks,              \* every coroutine task: its position and its locals
    cpu,                \* the task that owns the event loop, {} when none
    response,           \* the request served by the last step and what it returned
    next_key,           \* number of webhook events enqueued so far
    wh_log,             \* history: passes started and ended by the webhook worker
    store,              \* the backup directory tree of PosterBackupManager
    host,               \* the poster the media server shows for each item
    call,               \* the last call of the poster layer and what it returned
    done,               \* history: items overlaid, with only non-forced passes since
    rated,              \* the last rating aggregation: what the host held and what came of it
    drawn,              \* the last call of the badge compositor and the badges it drew
    titles,             \* the backup directories and the host poster of each title of a library
    restore_log         \* history: the counters of every restore pass that has ended

vars == <<processing_state, restore_state, webhook_queue, tasks, cpu, response,
          next_key, wh_log, store, host, call, done, rated, drawn, titles, restore_log>>

orchVars == <<processing_state, restore_state, webhook_queue, tasks, cpu, response,
              next_key, wh_log>>

\* What a request handler returned (a cron job has no response: its log line).
Response(endpoint, body) == [endpoint |-> endpoint, body |-> body]
\* The last step served no request.
NoResponse == Response("none", "none")

\* A task slot that holds no coroutine.
FreeTask ==
    [pc |-> "free", kind |-> "none", libs |-> << >>, force |-> FALSE,
     rating_key |-> 0, job |-> 0, n |-> 0, i |-> 0, stopk |-> 0]

\* processing_state as the module defines it; the key "error" is absent (None).
InitProcessingState ==
    [is_processing |-> FALSE, current_library |-> "None", progress |-> 0,
     total |-> 0, success |-> 0, failed |-> 0, skipped |-> 0,
     current_item |-> 0, stop_requested |-> FALSE, force_mode |-> FALSE,
     error |-> "None"]

\* restore_state as the module defines it.
InitRestoreState ==
    [is_restoring |-> FALSE, current_library |-> "None", progress |-> 0,
     total |-> 0, restored |-> 0, failed |-> 0, skipped |-> 0,
     current_item |-> 0, stop_requested |-> FALSE, error |-> "None"]

FreeSlots == {t \in TaskIds : tasks[t].pc = "free"}
NewSlot == CHOOSE t \in FreeSlots : \A u \in FreeSlots : t <= u

\* A task is over: its slot is given back.  The tasks that remain are kept in
\* the lowest slots, in the order of their creation.
Release(t) ==
    [u \in AllIds |->
        IF u = WorkerId \/ u < t THEN tasks[u]
        ELSE IF u < MaxTasks THEN tasks[u + 1]
        ELSE FreeTask]

\* asyncio.create_task(coro): the coroutine is scheduled, not run.
CreateTask(kind, libs, force) ==
    [tasks EXCEPT ![NewSlot] =
        [FreeTask EXCEPT !.pc = "created", !.kind = kind, !.libs = libs, !.force = force]]

\* Release years of the same-titled items.
Years == {1975, 2003}

\* Directory names: no year (None) or a year.
Keys == {0} \cup Years

\* The items of the library: they share one title and differ in release year.
Items == Years

\* A poster: whose artwork it is and how many badge layers were composited on it.
Poster(base, layers) == [base |-> base, layers |-> layers]

NoPoster == Poster(0, 0)

NoMetadata == [kind |-> "none", year |-> 0]

\* A backup directory: poster_original.jpg (and its bytes, content),
\* poster_overlay.jpg, metadata.json.
NoDir == [exists |-> FALSE, original |-> "none", content |-> NoPoster,
          overlay |-> FALSE, metadata |-> NoMetadata]

InitStore == [k \in Keys |-> NoDir]

\* Before any overlay the server shows each item's own artwork.
InitHost == [it \in Items |-> Poster(it, 0)]

\* A call of the poster layer: the operation, the cache key (year) and item it was
\* made for, its force flag, the year in the metadata it was given, what it
\* returned and the branch that decided the result.
Call(op, key, item, force, meta_year, result, stage) ==
    [op |-> op, key |-> key, item |-> item, force |-> force,
     meta_year |-> meta_year, result |-> result, stage |-> stage]

NoCall == Call("none", 0, 0, FALSE, 0, "none", "none")

\* The rating sources of a RatingSet.
Sources == {"tmdb", "imdb", "rt_critic", "rt_audience"}

\* The value of a key that is not in the dict (and of a provider's None).
Absent == -1

\* ratings = {}
NoRatings == [s \in Sources |-> Absent]

\* What the host and the rating providers hold for the item being processed:
\* movie.ratings, whether a guid names an IMDb id, and the answers of the three
\* fetchers.
RatingInputs(entries, imdb_id, tmdb_api, omdb, mdb) ==
    [entries |-> entries, imdb_id |-> imdb_id, tmdb_api |-> tmdb_api,
     omdb |-> omdb, mdb |-> mdb]

\* An aggregation: its inputs, the host's ratings as extracted, the TMDB value
\* gone by, the ratings dict and the fetchers called, in order.
Rated(inputs, plex, primary, ratings, consulted) ==
    [inputs |-> inputs, plex |-> plex, primary |-> primary, ratings |-> ratings,
     consulted |-> consulted]

\* No aggregation was run on the inputs.
NotRated(inputs) == Rated(inputs, NoRatings, Absent, NoRatings, << >>)

\* An item without ratings or identifiers, not yet looked at.
NoRated ==
    NotRated(RatingInputs({}, FALSE, Absent, "None",
                          [rt_critic |-> Absent, rt_audience |-> Absent]))

\* A badge pasted on the poster: its source, the pixel it is pasted at and its logo.
Badge(source, x, y, logo) == [source |-> source, x |-> x, y |-> y, logo |-> logo]

\* One source of badge_positions: whether the dict has the key, and its x and y
\* (percent of the poster's width and height).
Position(on, x, y) == [on |-> on, x |-> x, y |-> y]

\* badge_positions = {}
NoPositions == [s \in Sources |-> Position(FALSE, 0, 0)]

\* The arguments of apply_to_poster: ratings, badge_positions (given is false
\* for None) and the size of the poster.
CompositorInputs(ratings, given, positions, size) ==
    [ratings |-> ratings, given |-> given, positions |-> positions, size |-> size]

\* What apply_to_poster pasted: the layout mode taken, the badges of individual
\* mode and the rows of the one badge of unified mode.
Drawn(inputs, mode, badges, rows) ==
    [inputs |-> inputs, mode |-> mode, badges |-> badges, rows |-> rows]

\* The compositor was not called.
NoDrawn == Drawn(CompositorInputs(NoRatings, FALSE, NoPositions, <<0, 0>>),
                 "none", {}, {})

\* The orchestrator after startup: idle, the webhook worker waiting on its queue.
InitOrch ==
    /\ processing_state = InitProcessingState
    /\ restore_state = InitRestoreState
    /\ webhook_queue = << >>
    /\ tasks = [t \in AllIds |->
                  IF t = WorkerId
                    THEN [FreeTask EXCEPT !.pc = "get", !.kind = "webhook"]
                    ELSE FreeTask]
    /\ cpu = {}
    /\ response = NoResponse
    /\ next_key = 0
    /\ wh_log = << >>

\* library.all() of the library that restore passes run over: its titles, one
\* item each, in the host's order.
AllTitles == <<"Heat", "Solaris">>

\* The release year of the item of each title.
TitleYear == 2003

\* No title has a backup directory; the host shows each item's own artwork.
InitTitles ==
    [title \in {AllTitles[k] : k \in 1..Len(AllTitles)} |->
        [store |-> InitStore, host |-> InitHost]]

\* An empty backup directory, and every item with its own poster.
InitPosters ==
    /\ store = InitStore
    /\ host = InitHost
    /\ call = NoCall
    /\ done = {}
    /\ titles = InitTitles
    /\ restore_log = << >>

Init ==
    /\ InitOrch
    /\ InitPosters
    /\ rated = NoRated
    /\ drawn = NoDrawn

(***************************************************************************)
(* Request handlers.  None of them awaits anything that suspends, so each   *)
(* is one step of the loop.                                                 *)
(***************************************************************************)

\* Mutant: the running flag is not checked.
start_processing_unchecked(lib, force) ==
    /\ cpu = {}
    /\ FreeSlots # {}
    /\ tasks' = CreateTask("process", <<lib>>, force)
    /\ response' = Response("/api/process", "started")
    /\ UNCHANGED <<processing_state, restore_state, webhook_queue, cpu, next_key,
                   wh_log, store, host, call, done, rated, drawn, titles, restore_log>>

\* POST /api/process
start_processing(lib, force) ==
    /\ cpu = {}
    /\ IF processing_state.is_processing
         THEN /\ response' = Response("/api/process", "error: Processing already in progress")
              /\ UNCHANGED tasks
         ELSE /\ FreeSlots # {}
              /\ tasks' = CreateTask("process", <<lib>>, force)
              /\ response' = Response("/api/process", "started")
    /\ UNCHANGED <<processing_state, restore_state, webhook_queue, cpu, next_key,
                   wh_log, store, host, call, done, rated, drawn, titles, restore_log>>

\* POST /api/process-batch
start_processing_batch(libs, force) ==
    /\ cpu = {}
    /\ IF processing_state.is_processing
         THEN /\ response' = Response("/api/process-batch", "error: Processing already in progress")
              /\ UNCHANGED tasks
         ELSE IF libs = << >>
           THEN /\ response' = Response("/api/process-batch", "error: No libraries specified")
                /\ UNCHANGED tasks
           ELSE /\ FreeSlots # {}
                /\ tasks' = CreateTask("batch", libs, force)
                /\ response' = Response("/api/process-batch", "started")
    /\ UNCHANGED <<processing_state, restore_state, webhook_queue, cpu, next_key,
                   wh_log, store, host, call, done, rated, drawn, titles, restore_log>>

\* POST /api/restore
restore_originals(lib) ==
    /\ cpu = {}
    /\ IF restore_state.is_restoring
         THEN /\ response' = Response("/api/restore", "error: Restore already in progress")
              /\ UNCHANGED tasks
         ELSE /\ FreeSlots # {}
              /\ tasks' = CreateTask("restore", <<lib>>, FALSE)
              /\ response' = Response("/api/restore", "started")
    /\ UNCHANGED <<processing_state, restore_state, webhook_queue, cpu, next_key,
                   wh_log, store, host, call, done, rated, drawn, titles, restore_log>>

\* The item a suspended pass is working on when a stop request is accepted
\* (history, kept in the task's stopk; 0 when none or when it is the last item).
MarkStop(t) ==
    IF /\ tasks[t].pc = "sleep"
       /\ tasks[t].kind # "restore"
       /\ tasks[t].stopk = 0
       /\ tasks[t].i < tasks[t].n
      THEN [tasks[t] EXCEPT !.stopk = tasks[t].i]
      ELSE tasks[t]

\* Mutant: the stop flag is set whether or not a pass is running.
stop_processing_always ==
    /\ cpu = {}
    /\ processing_state' = [processing_state EXCEPT !.stop_requested = TRUE]
    /\ tasks' = [t \in AllIds |-> MarkStop(t)]
    /\ response' = Response("/api/stop", "stopping")
    /\ UNCHANGED <<restore_state, webhook_queue, cpu, next_key, wh_log, store, host, call, done, rated, drawn, titles, restore_log>>

\* POST /api/stop
stop_processing ==
    /\ cpu = {}
    /\ IF processing_state.is_processing
         THEN /\ processing_state' = [processing_state EXCEPT !.stop_requested = TRUE]
              /\ tasks' = [t \in AllIds |-> MarkStop(t)]
              /\ response' = Response("/api/stop", "stopping")
         ELSE /\ response' = Response("/api/stop", "idle")
              /\ UNCHANGED <<processing_state, tasks>>
    /\ UNCHANGED <<restore_state, webhook_queue, cpu, next_key, wh_log, store, host, call, done, rated, drawn, titles, restore_log>>

\* POST /api/restore/stop
stop_restore ==
    /\ cpu = {}
    /\ IF restore_state.is_restoring
         THEN /\ restore_state' = [restore_state EXCEPT !.stop_requested = TRUE]
              /\ response' = Response("/api/restore/stop", "stopping")
         ELSE /\ response' = Response("/api/restore/stop", "idle")
              /\ UNCHANGED restore_state
    /\ UNCHANGED <<processing_state, webhook_queue, tasks, cpu, next_key, wh_log, store, host, call, done, rated, drawn, titles, restore_log>>

\* Mutant: the cron job does not look at the running flag.
cron_run_libraries_unchecked(libraries, force) ==
    /\ cpu = {}
    /\ FreeSlots # {}
    /\ tasks' = CreateTask("cron", libraries, force)
    /\ response' = Response("cron", "Cron: run created")
    /\ UNCHANGED <<processing_state, restore_state, webhook_queue, cpu, next_key,
                   wh_log, store, host, call, done, rated, drawn, titles, restore_log>>

\* APScheduler runs the coroutine of a due cron job; its log line is the response.
cron_run_libraries(libraries, force) ==
    /\ cpu = {}
    /\ IF processing_state.is_processing
         THEN /\ response' = Response("cron", "Cron: skipping, processing already in progress")
              /\ UNCHANGED tasks
         ELSE /\ FreeSlots # {}
              /\ tasks' = CreateTask("cron", libraries, force)
              /\ response' = Response("cron", "Cron: run created")
    /\ UNCHANGED <<processing_state, restore_state, webhook_queue, cpu, next_key,
                   wh_log, store, host, call, done, rated, drawn, titles, restore_log>>

\* Mutant: the allow-list of the settings is not consulted.
plex_webhook_unscoped(event, enabled, has_library, target_library, allowed, has_key) ==
    /\ cpu = {}
    /\ IF event = "library.new" /\ enabled /\ has_library
         THEN /\ next_key < MaxJobs
              /\ next_key' = next_key + 1
              /\ webhook_queue' = Append(webhook_queue,
                    [library |-> target_library,
                     rating_key |-> IF has_key THEN next_key + 1 ELSE 0,
                     item_title |-> next_key + 1])
              /\ response' = Response("/webhook/plex", "queued")
         ELSE /\ response' = Response("/webhook/plex", "ok")
              /\ UNCHANGED <<webhook_queue, next_key>>
    /\ UNCHANGED <<processing_state, restore_state, tasks, cpu, wh_log, store, host, call, done, rated, drawn, titles, restore_log>>

\* POST /webhook/plex.  enabled and allowed are the webhook block of the settings
\* file; has_library and has_key say whether Metadata names librarySectionTitle
\* and ratingKey.  The event's title is its number in arrival order.
plex_webhook(event, enabled, has_library, target_library, allowed, has_key) ==
    /\ cpu = {}
    /\ IF event = "library.new"
         THEN IF ~enabled
           THEN /\ response' = Response("/webhook/plex", "ignored: webhook disabled")
                /\ UNCHANGED <<webhook_queue, next_key>>
           ELSE IF ~has_library
             THEN /\ response' = Response("/webhook/plex", "ignored: could not determine library from event")
                  /\ UNCHANGED <<webhook_queue, next_key>>
             ELSE IF allowed # {} /\ target_library \notin allowed
               THEN /\ response' = Response("/webhook/plex", "ignored: library not in webhook scope")
                    /\ UNCHANGED <<webhook_queue, next_key>>
               ELSE /\ next_key < MaxJobs
                    /\ next_key' = next_key + 1
                    /\ webhook_queue' = Append(webhook_queue,
                          [library |-> target_library,
                           rating_key |-> IF has_key THEN next_key + 1 ELSE 0,
                           item_title |-> next_key + 1])
                    /\ response' = Response("/webhook/plex", "queued")
         ELSE /\ response' = Response("/webhook/plex", "ok")
              /\ UNCHANGED <<webhook_queue, next_key>>
    /\ UNCHANGED <<processing_state, restore_state, tasks, cpu, wh_log, store, host, call, done, rated, drawn, titles, restore_log>>


(***************************************************************************)
(* Background tasks: a task made by create_task takes its first step.       *)
(***************************************************************************)

\* First step of a created task.  run_batch and process/restore tasks go straight
\* to their first pass; _run_libraries_sequentially first resolves an empty
\* list to every library of the host (the fetch may raise: the task returns).
TaskRun(t) ==
    /\ cpu = {}
    /\ tasks[t].pc = "created"
    /\ \/ /\ tasks[t].kind = "cron" /\ tasks[t].libs = << >>
          /\ \/ /\ tasks' = Release(t)
                /\ cpu' = {}
             \/ /\ tasks' = [tasks EXCEPT ![t].pc = "begin", ![t].libs = AllLibraries]
                /\ cpu' = {t}
       \/ /\ ~(tasks[t].kind = "cron" /\ tasks[t].libs = << >>)
          /\ tasks' = [tasks EXCEPT ![t].pc = "begin"]
          /\ cpu' = {t}
    /\ response' = NoResponse
    /\ UNCHANGED <<processing_state, restore_state, webhook_queue, next_key,
                   wh_log, store, host, call, done, rated, drawn, titles, restore_log>>

\* A coroutine suspended in asyncio.sleep (after broadcasting progress) resumes.
PassWake(t) ==
    /\ cpu = {}
    /\ tasks[t].pc = "sleep"
    /\ tasks' = [tasks EXCEPT ![t].pc = "loop"]
    /\ cpu' = {t}
    /\ response' = NoResponse
    /\ UNCHANGED <<processing_state, restore_state, webhook_queue, next_key,
                   wh_log, store, host, call, done, rated, drawn, titles, restore_log>>

(***************************************************************************)
(* process_library_background(request)                                      *)
(***************************************************************************)

\* "Reset processing state for new run": stop_requested and error are not reset.
PassBegin(t) ==
    /\ cpu = {t}
    /\ tasks[t].pc = "begin"
    /\ tasks[t].kind # "restore"
    /\ processing_state' = [processing_state EXCEPT
           !.is_processing = TRUE,
           !.current_library = Head(tasks[t].libs),
           !.progress = 0, !.total = 0, !.success = 0, !.failed = 0, !.skipped = 0,
           !.current_item = 0,
           !.force_mode = tasks[t].force]
    /\ tasks' = [tasks EXCEPT ![t].pc = "init", ![t].n = 0, ![t].i = 0, ![t].stopk = 0]
    /\ wh_log' = IF t = WorkerId THEN Append(wh_log, <<"start", tasks[t].job>>) ELSE wh_log
    /\ response' = NoResponse
    /\ UNCHANGED <<restore_state, webhook_queue, cpu, next_key, store, host, call, done, rated, drawn, titles, restore_log>>

\* len(all_items): [fetchItem(rating_key)] or library.all().
AllItems(t) ==
    IF tasks[t].rating_key # 0 THEN 1 ELSE LibrarySize(Head(tasks[t].libs))

\* PlexPosterManager(...) connects to the host and opens the library; all_items is
\* the one item of rating_key, or the library (cut to request.limit).  Any of the
\* calls may raise.
PassInit(t) ==
    /\ cpu = {t}
    /\ tasks[t].pc = "init"
    /\ \/ /\ tasks' = [tasks EXCEPT ![t].pc = "except"]
          /\ UNCHANGED processing_state
       \/ \E n \in {AllItems(t)} :
          /\ tasks' = [tasks EXCEPT ![t].pc = "loop", ![t].n = n]
          /\ processing_state' = [processing_state EXCEPT !.total = n]
    /\ response' = NoResponse
    /\ UNCHANGED <<restore_state, webhook_queue, cpu, next_key, wh_log, store, host, call, done, rated, drawn, titles, restore_log>>

\* What manager.process_movie returns: True, None or False.
ProcessMovieResults == {"True", "None", "False"}

\* One turn of the for loop: the stop check, one item, the progress broadcast and
\* the sleep (where the coroutine suspends).
PassLoop(t) ==
    /\ cpu = {t}
    /\ tasks[t].pc = "loop"
    /\ tasks[t].kind # "restore"
    /\ IF tasks[t].i = tasks[t].n \/ processing_state.stop_requested
         THEN /\ tasks' = [tasks EXCEPT ![t].pc = "end"]
              /\ UNCHANGED <<processing_state, cpu>>
         ELSE \E result \in ProcessMovieResults :
              /\ processing_state' = [processing_state EXCEPT
                     !.progress = tasks[t].i + 1,
                     !.current_item = tasks[t].i + 1,
                     !.skipped = IF result = "None" THEN @ + 1 ELSE @,
                     !.success = IF result = "True" THEN @ + 1 ELSE @,
                     !.failed = IF result = "False" THEN @ + 1 ELSE @]
              /\ tasks' = [tasks EXCEPT ![t].pc = "sleep", ![t].i = tasks[t].i + 1]
              /\ cpu' = {}
    /\ response' = NoResponse
    /\ UNCHANGED <<restore_state, webhook_queue, next_key, wh_log, store, host, call, done, rated, drawn, titles, restore_log>>

\* Mutant: the stop flag is left as it is at the end of a pass.
PassEndKeepsStop(t) ==
    /\ cpu = {t}
    /\ tasks[t].pc = "end"
    /\ tasks[t].kind # "restore"
    /\ processing_state' = [processing_state EXCEPT !.is_processing = FALSE]
    /\ tasks' = [tasks EXCEPT ![t].pc = "return"]
    /\ \E yields \in BOOLEAN : cpu' = IF yields THEN {} ELSE {t}
    /\ wh_log' = IF t = WorkerId THEN Append(wh_log, <<"end", tasks[t].job>>) ELSE wh_log
    /\ response' = NoResponse
    /\ UNCHANGED <<restore_state, webhook_queue, next_key, store, host, call, done, rated, drawn, titles, restore_log>>

\* After the loop: the flags are cleared, then the final broadcast, which
\* suspends the coroutine or not (yields).
PassEnd(t) ==
    /\ cpu = {t}
    /\ tasks[t].pc = "end"
    /\ tasks[t].kind # "restore"
    /\ processing_state' = [processing_state EXCEPT
           !.is_processing = FALSE, !.stop_requested = FALSE]
    /\ tasks' = [tasks EXCEPT ![t].pc = "return"]
    /\ \E yields \in BOOLEAN : cpu' = IF yields THEN {} ELSE {t}
    /\ wh_log' = IF t = WorkerId THEN Append(wh_log, <<"end", tasks[t].job>>) ELSE wh_log
    /\ response' = NoResponse
    /\ UNCHANGED <<restore_state, webhook_queue, next_key, store, host, call, done, rated, drawn, titles, restore_log>>

\* Mutant: the except branch records the error and leaves the running flag set.
PassExceptKeepsRunning(t) ==
    /\ cpu = {t}
    /\ tasks[t].pc = "except"
    /\ tasks[t].kind # "restore"
    /\ processing_state' = [processing_state EXCEPT
           !.stop_requested = FALSE, !.error = "error"]
    /\ tasks' = [tasks EXCEPT ![t].pc = "return"]
    /\ \E yields \in BOOLEAN : cpu' = IF yields THEN {} ELSE {t}
    /\ wh_log' = IF t = WorkerId THEN Append(wh_log, <<"end", tasks[t].job>>) ELSE wh_log
    /\ response' = NoResponse
    /\ UNCHANGED <<restore_state, webhook_queue, next_key, store, host, call, done, rated, drawn, titles, restore_log>>

\* except Exception: the flags are cleared and the error recorded, then broadcast.
PassExcept(t) ==
    /\ cpu = {t}
    /\ tasks[t].pc = "except"
    /\ tasks[t].kind # "restore"
    /\ processing_state' = [processing_state EXCEPT
           !.is_processing = FALSE, !.stop_requested = FALSE, !.error = "error"]
    /\ tasks' = [tasks EXCEPT ![t].pc = "return"]
    /\ \E yields \in BOOLEAN : cpu' = IF yields THEN {} ELSE {t}
    /\ wh_log' = IF t = WorkerId THEN Append(wh_log, <<"end", tasks[t].job>>) ELSE wh_log
    /\ response' = NoResponse
    /\ UNCHANGED <<restore_state, webhook_queue, next_key, store, host, call, done, rated, drawn, titles, restore_log>>

\* The pass returns to its caller: a single-library task is over; run_batch and
\* _run_libraries_sequentially go on to the next library of their list; the webhook
\* worker marks the job done and goes back to the queue.
PassReturn(t) ==
    /\ cpu \subseteq {t}
    /\ tasks[t].pc = "return"
    /\ IF t = WorkerId
         THEN /\ tasks' = [tasks EXCEPT ![t].pc = "get"]
              /\ cpu' = {t}
         ELSE IF Len(tasks[t].libs) > 1
           THEN /\ tasks' = [tasks EXCEPT ![t].pc = "begin", ![t].libs = Tail(tasks[t].libs)]
                /\ cpu' = {t}
           ELSE /\ tasks' = Release(t)
                /\ cpu' = {}
    /\ response' = NoResponse
    /\ UNCHANGED <<processing_state, restore_state, webhook_queue, next_key,
                   wh_log, store, host, call, done, rated, drawn, titles, restore_log>>

(***************************************************************************)
(* _webhook_queue_worker()                                                  *)
(***************************************************************************)

\* await webhook_queue.get() on an empty queue suspends the worker.
WorkerBlock ==
    /\ cpu = {WorkerId}
    /\ tasks[WorkerId].pc = "get"
    /\ webhook_queue = << >>
    /\ cpu' = {}
    /\ response' = NoResponse
    /\ UNCHANGED <<processing_state, restore_state, webhook_queue, tasks,
                   next_key, wh_log, store, host, call, done, rated, drawn, titles, restore_log>>

\* Mutant: the newest entry is taken.
QueueGetNewest(q) == q[Len(q)]

\* webhook_queue.get() returns the oldest entry (at once when the queue is not empty).
QueueGet(q) == Head(q)
QueueRest(q) == Tail(q)

WorkerGet ==
    /\ cpu \subseteq {WorkerId}
    /\ tasks[WorkerId].pc = "get"
    /\ webhook_queue # << >>
    /\ tasks' = [tasks EXCEPT ![WorkerId] =
           [FreeTask EXCEPT !.pc = "check", !.kind = "webhook",
                            !.libs = <<QueueGet(webhook_queue).library>>,
                            !.rating_key = QueueGet(webhook_queue).rating_key,
                            !.job = QueueGet(webhook_queue).item_title]]
    /\ webhook_queue' = QueueRest(webhook_queue)
    /\ cpu' = {WorkerId}
    /\ response' = NoResponse
    /\ UNCHANGED <<processing_state, restore_state, next_key, wh_log, store, host, call, done, rated, drawn, titles, restore_log>>

\* Mutant: the worker does not wait for a running pass.
WorkerCheckNoWait ==
    /\ cpu = {WorkerId}
    /\ tasks[WorkerId].pc = "check"
    /\ tasks' = [tasks EXCEPT ![WorkerId].pc = "begin"]
    /\ cpu' = {WorkerId}
    /\ response' = NoResponse
    /\ UNCHANGED <<processing_state, restore_state, webhook_queue, next_key,
                   wh_log, store, host, call, done, rated, drawn, titles, restore_log>>

\* Mutant: a job found while a pass is running is given up.
WorkerCheckDrop ==
    /\ cpu = {WorkerId}
    /\ tasks[WorkerId].pc = "check"
    /\ IF processing_state.is_processing
         THEN /\ tasks' = [tasks EXCEPT ![WorkerId].pc = "get"]
              /\ cpu' = {WorkerId}
         ELSE /\ tasks' = [tasks EXCEPT ![WorkerId].pc = "begin"]
              /\ cpu' = {WorkerId}
    /\ response' = NoResponse
    /\ UNCHANGED <<processing_state, restore_state, webhook_queue, next_key,
                   wh_log, store, host, call, done, rated, drawn, titles, restore_log>>

\* while processing_state["is_processing"]: await asyncio.sleep(2); then the pass is
\* awaited directly, with no suspension point in between.
WorkerCheck ==
    /\ cpu = {WorkerId}
    /\ tasks[WorkerId].pc = "check"
    /\ IF processing_state.is_processing
         THEN /\ tasks' = [tasks EXCEPT ![WorkerId].pc = "poll"]
              /\ cpu' = {}
         ELSE /\ tasks' = [tasks EXCEPT ![WorkerId].pc = "begin"]
              /\ cpu' = {WorkerId}
    /\ response' = NoResponse
    /\ UNCHANGED <<processing_state, restore_state, webhook_queue, next_key,
                   wh_log, store, host, call, done, rated, drawn, titles, restore_log>>

\* The worker's asyncio.sleep(2) is over.
WorkerWake ==
    /\ cpu = {}
    /\ tasks[WorkerId].pc = "poll"
    /\ tasks' = [tasks EXCEPT ![WorkerId].pc = "check"]
    /\ cpu' = {WorkerId}
    /\ response' = NoResponse
    /\ UNCHANGED <<processing_state, restore_state, webhook_queue, next_key,
                   wh_log, store, host, call, done, rated, drawn, titles, restore_log>>

(***************************************************************************)
(* restore_library_background(request)                                      *)
(***************************************************************************)

\* The state reset, the connection to the host and the item list: the first
\* synchronous stretch of the try block.
RestoreBegin(t) ==
    /\ cpu = {t}
    /\ tasks[t].pc = "begin"
    /\ tasks[t].kind = "restore"
    /\ \/ /\ restore_state' = [restore_state EXCEPT
                 !.is_restoring = TRUE,
                 !.current_library = Head(tasks[t].libs),
                 !.progress = 0, !.total = 0, !.restored = 0, !.failed = 0,
                 !.skipped = 0, !.current_item = 0]
          /\ tasks' = [tasks EXCEPT ![t].pc = "except"]
       \/ \E n \in {LibrarySize(Head(tasks[t].libs))} :
          /\ restore_state' = [restore_state EXCEPT
                 !.is_restoring = TRUE,
                 !.current_library = Head(tasks[t].libs),
                 !.progress = 0, !.total = n, !.restored = 0, !.failed = 0,
                 !.skipped = 0, !.current_item = 0]
          /\ tasks' = [tasks EXCEPT ![t].pc = "loop", ![t].n = n, ![t].i = 0]
    /\ response' = NoResponse
    /\ UNCHANGED <<processing_state, webhook_queue, cpu, next_key, wh_log, store, host, call, done, rated, drawn, titles, restore_log>>

\* What one item of a restore pass comes to.
RestoreItemResults == {"skipped", "restored", "failed"}

RestoreLoop(t) ==
    /\ cpu = {t}
    /\ tasks[t].pc = "loop"
    /\ tasks[t].kind = "restore"
    /\ IF tasks[t].i = tasks[t].n \/ restore_state.stop_requested
         THEN /\ tasks' = [tasks EXCEPT ![t].pc = "end"]
              /\ UNCHANGED <<restore_state, cpu>>
         ELSE \E result \in RestoreItemResults :
              /\ restore_state' = [restore_state EXCEPT
                     !.progress = tasks[t].i + 1,
                     !.current_item = tasks[t].i + 1,
                     !.skipped = IF result = "skipped" THEN @ + 1 ELSE @,
                     !.restored = IF result = "restored" THEN @ + 1 ELSE @,
                     !.failed = IF result = "failed" THEN @ + 1 ELSE @]
              /\ tasks' = [tasks EXCEPT ![t].pc = "sleep", ![t].i = tasks[t].i + 1]
              /\ cpu' = {}
    /\ response' = NoResponse
    /\ UNCHANGED <<processing_state, webhook_queue, next_key, wh_log, store, host, call, done, rated, drawn, titles, restore_log>>

RestoreEnd(t) ==
    /\ cpu = {t}
    /\ tasks[t].pc = "end"
    /\ tasks[t].kind = "restore"
    /\ restore_state' = [restore_state EXCEPT
           !.is_restoring = FALSE, !.stop_requested = FALSE]
    /\ tasks' = [tasks EXCEPT ![t].pc = "return"]
    /\ \E yields \in BOOLEAN : cpu' = IF yields THEN {} ELSE {t}
    /\ response' = NoResponse
    /\ UNCHANGED <<processing_state, webhook_queue, next_key, wh_log, store, host, call, done, rated, drawn, titles, restore_log>>

RestoreExcept(t) ==
    /\ cpu = {t}
    /\ tasks[t].pc = "except"
    /\ tasks[t].kind = "restore"
    /\ restore_state' = [restore_state EXCEPT
           !.is_restoring = FALSE, !.stop_requested = FALSE, !.error = "error"]
    /\ tasks' = [tasks EXCEPT ![t].pc = "return"]
    /\ \E yields \in BOOLEAN : cpu' = IF yields THEN {} ELSE {t}
    /\ response' = NoResponse
    /\ UNCHANGED <<processing_state, webhook_queue, next_key, wh_log, store, host, call, done, rated, drawn, titles, restore_log>>


\* The steps of the coroutines that run processing passes.
PassStep ==
    \/ \E t \in TaskIds : TaskRun(t)
    \/ \E t \in AllIds : PassWake(t)
    \/ \E t \in AllIds : PassBegin(t)
    \/ \E t \in AllIds : PassInit(t)
    \/ \E t \in AllIds : PassLoop(t)
    \/ \E t \in AllIds : PassEnd(t)
    \/ \E t \in AllIds : PassExcept(t)
    \/ \E t \in AllIds : PassReturn(t)

WorkerStep ==
    \/ WorkerBlock
    \/ WorkerGet
    \/ WorkerCheck
    \/ WorkerWake

RestoreStep ==
    \/ \E t \in TaskIds : RestoreBegin(t)
    \/ \E t \in TaskIds : RestoreLoop(t)
    \/ \E t \in TaskIds : RestoreEnd(t)
    \/ \E t \in TaskIds : RestoreExcept(t)

(***************************************************************************)
(* Specifications.                                                          *)
(***************************************************************************)

\* Bulk passes from every origin: manual starts, batches, the two cron jobs, and
\* stop requests.
Next ==
    \/ \E lib \in Libs, force \in BOOLEAN : start_processing(lib, force)
    \/ \E libs \in BatchLists \cup {<< >>} : start_processing_batch(libs, FALSE)
    \/ stop_processing
    \/ \E job \in CronJobs : cron_run_libraries(job[1], job[2])
    \/ PassStep

Spec == Init /\ [][Next]_vars

\* The webhook worker next to bulk passes (manual starts and the cron jobs).
NextWebhook ==
    \/ start_processing("Shows", FALSE)
    \/ \E job \in CronJobs : cron_run_libraries(job[1], job[2])
    \/ \E event \in {"library.new", "media.play"}, enabled \in BOOLEAN,
          has_library \in BOOLEAN, allowed \in {{}, {"Shows"}} :
          plex_webhook(event, enabled, has_library, "Movies", allowed, TRUE)
    \/ PassStep
    \/ WorkerStep

SpecWebhook == Init /\ [][NextWebhook]_vars

\* Processing passes and restore passes side by side.
NextRestore ==
    \/ start_processing("Movies", FALSE)
    \/ restore_originals("Movies")
    \/ stop_restore
    \/ PassStep
    \/ RestoreStep

SpecRestore == Init /\ [][NextRestore]_vars

\* Every step task t can take.
TaskStep(t) ==
    \/ TaskRun(t)
    \/ PassWake(t)
    \/ PassBegin(t)
    \/ PassInit(t)
    \/ PassLoop(t)
    \/ PassEnd(t)
    \/ PassExcept(t)
    \/ PassReturn(t)

\* The webhook worker next to manual passes, under the event loop's scheduling:
\* a task that is ready again and again gets its turn (the loop runs its ready
\* queue in order and fires every timer), and each pass terminates.
NextFair ==
    \/ start_processing("Shows", FALSE)
    \/ \E event \in {"library.new", "media.play"}, enabled \in BOOLEAN,
          has_library \in BOOLEAN, allowed \in {{}, {"Shows"}} :
          plex_webhook(event, enabled, has_library, "Movies", allowed, TRUE)
    \/ PassStep
    \/ WorkerStep

SpecFair ==
    /\ Init
    /\ [][NextFair]_vars
    /\ \A t \in AllIds : SF_vars(TaskStep(t))
    /\ SF_vars(WorkerStep)

\* Manual passes over one library with stop requests, under the event loop's
\* scheduling (as above): every item's processing terminates and every sleeping
\* task is woken.
NextEnds ==
    \/ start_processing("Movies", FALSE)
    \/ stop_processing
    \/ PassStep

SpecEnds ==
    /\ Init
    /\ [][NextEnds]_vars
    /\ \A t \in TaskIds : SF_vars(TaskStep(t))

\* What a payload's "event" is; "not json" stands for a payload json.loads
\* rejects.
HookEvents == {"library.new", "media.play", "not json"}

\* The libraries of webhook.libraries in the settings file.
AllowLists == {{}, {"Shows"}}

\* The webhook alone: events of every kind for either library, with and without
\* ratingKey, and the worker that processes what is queued.  No other pass is
\* ever started here, so the worker never has to poll for a running one.
NextHook ==
    \/ \E event \in HookEvents, enabled \in BOOLEAN, has_library \in BOOLEAN,
          target_library \in Libs, allowed \in AllowLists, has_key \in BOOLEAN :
          plex_webhook(event, enabled, has_library, target_library, allowed, has_key)
    \/ PassWake(WorkerId)
    \/ PassBegin(WorkerId)
    \/ PassInit(WorkerId)
    \/ PassLoop(WorkerId)
    \/ PassEnd(WorkerId)
    \/ PassExcept(WorkerId)
    \/ PassReturn(WorkerId)
    \/ WorkerBlock
    \/ WorkerGet
    \/ WorkerCheck

SpecHook == Init /\ [][NextHook]_vars

\* Every step of the webhook worker: its loop around the queue and the pass it
\* awaits.
HookWorkerStep ==
    \/ TaskStep(WorkerId)
    \/ WorkerBlock
    \/ WorkerGet
    \/ WorkerCheck

\* The webhook alone under the event loop's scheduling: the worker gets its turn
\* whenever it is ready, and each item's processing terminates.
SpecHookFair == Init /\ [][NextHook]_vars /\ SF_vars(HookWorkerStep)

\* Processing passes and restore passes of one library, each with its stop
\* requests.
NextStops ==
    \/ start_processing("Movies", FALSE)
    \/ restore_originals("Movies")
    \/ stop_processing
    \/ stop_restore
    \/ PassStep
    \/ RestoreStep

SpecStops == Init /\ [][NextStops]_vars

(***************************************************************************)
(* The poster cache (PosterBackupManager): the backup directories of one   *)
(* title in one library.  Directory 0 is the title-only directory, the     *)
(* directory of a year is "title (year)".                                   *)
(***************************************************************************)

\* Mutant: the title-only directory is renamed whatever year its metadata holds.
ShouldMigrateAlways(metadata, year) == TRUE

\* The metadata of the title-only directory allows the rename: no file, a corrupt
\* file, no year in it, or the same year.
ShouldMigrate(metadata, year) ==
    \/ metadata.kind = "none"
    \/ metadata.kind = "corrupt"
    \/ metadata.kind = "ok" /\ (metadata.year = 0 \/ metadata.year = year)

\* _get_backup_path: the directory of the key, after the title-only directory
\* has been renamed to it when the key has a year, its directory is missing and
\* the old directory may be migrated.
GetBackupPath(st, year) ==
    IF /\ year # 0
       /\ ~st[year].exists
       /\ st[0].exists
       /\ ShouldMigrate(st[0].metadata, year)
      THEN [st EXCEPT ![year] = st[0], ![0] = NoDir]
      ELSE st

\* has_backup / has_overlay: the answers, computed as the code computes them.
HasBackup(st, year) == GetBackupPath(st, year)[year].original # "none"

HasOverlay(st, year) == GetBackupPath(st, year)[year].overlay

\* The lookup of the key renames the title-only directory.
Migrates(st, year) == GetBackupPath(st, year) # st

\* What a Python bool prints as.
Bool(b) == IF b THEN "True" ELSE "False"

\* has_backup and has_overlay run _get_backup_path, which may rename.
has_backup(year) ==
    /\ store' = GetBackupPath(store, year)
    /\ call' = Call("has_backup", year, 0, FALSE, 0, Bool(HasBackup(store, year)),
                    IF Migrates(store, year) THEN "migrated" ELSE "none")
    /\ UNCHANGED <<host, done, rated, drawn, titles, restore_log>>
    /\ UNCHANGED orchVars

has_overlay(year) ==
    /\ store' = GetBackupPath(store, year)
    /\ call' = Call("has_overlay", year, 0, FALSE, 0, Bool(HasOverlay(store, year)),
                    IF Migrates(store, year) THEN "migrated" ELSE "none")
    /\ UNCHANGED <<host, done, rated, drawn, titles, restore_log>>
    /\ UNCHANGED orchVars

\* Mutant: the file written by a failed backup is left behind.
BackupFailedKeep(dir) == [dir EXCEPT !.original = "image"]

\* The directory after a failed backup: the except branch and the verification
\* branch unlink poster_original.jpg when it exists.
BackupFailed(dir) == [dir EXCEPT !.original = "none", !.content = NoPoster]

DownloadOutcomes == {"error", "corrupt", "image"}

\* Mutant: metadata.json is written also when the existing backup is kept.
WritesMetadataAlways(dir, force) == TRUE

\* backup_poster goes on to download and write (original and metadata) unless
\* the original exists and force is not set.
WritesBackup(dir, force) == ~(dir.original # "none" /\ ~force)

\* backup_poster as a function of the store: the store it leaves and what it
\* returns ("path" for original_path, "None") on which branch.  poster is what
\* poster_url serves,
\* download the outcome of the request, meta_year the year in item_metadata,
\* meta_ok whether metadata.json could be written.
BackupPoster(st0, year, force, poster, download, meta_year, meta_ok) ==
    LET st  == GetBackupPath(st0, year)
        dir == [st[year] EXCEPT !.exists = TRUE]
        new == [kind |-> "ok", year |-> meta_year]
    IN  IF ~WritesBackup(dir, force)
          THEN [store |-> [st EXCEPT ![year] = dir], result |-> "path",
                stage |-> "kept"]
          ELSE IF download = "image"
            THEN IF meta_ok
                   THEN [store |-> [st EXCEPT ![year] =
                                      [dir EXCEPT !.original = "image",
                                                  !.content = poster,
                                                  !.metadata = new]],
                         result |-> "path", stage |-> "written"]
                   ELSE [store |-> [st EXCEPT ![year] =
                                      [BackupFailed(dir) EXCEPT
                                          !.metadata = [kind |-> "corrupt",
                                                        year |-> 0]]],
                         result |-> "None", stage |-> "metadata error"]
            ELSE [store |-> [st EXCEPT ![year] = BackupFailed(dir)],
                  result |-> "None",
                  stage |-> IF download = "error" THEN "download error"
                            ELSE "no image"]

backup_poster(year, force, poster, download, meta_year, meta_ok) ==
    LET r == BackupPoster(store, year, force, poster, download, meta_year, meta_ok)
    IN  /\ store' = r.store
        /\ call' = Call("backup_poster", year, 0, force, meta_year, r.result, r.stage)
        /\ UNCHANGED <<host, done, rated, drawn, titles, restore_log>>
        /\ UNCHANGED orchVars

\* img.save succeeds when the overlay image opens and the directory exists.
SaveOverlayAllowed(dir, image_ok) == image_ok /\ dir.exists

SaveOverlayPoster(st0, year, image_ok) ==
    LET st == GetBackupPath(st0, year)
    IN  IF SaveOverlayAllowed(st[year], image_ok)
          THEN [store |-> [st EXCEPT ![year].overlay = TRUE], result |-> "path"]
          ELSE [store |-> st, result |-> "None"]

save_overlay_poster(year, image_ok) ==
    LET r == SaveOverlayPoster(store, year, image_ok)
    IN  /\ store' = r.store
        /\ call' = Call("save_overlay_poster", year, 0, FALSE, 0, r.result, "none")
        /\ UNCHANGED <<host, done, rated, drawn, titles, restore_log>>
        /\ UNCHANGED orchVars

\* Mutant: the overlay file is kept after the upload.
RestoreClearsOverlayNever(dir) == dir

\* After the upload poster_overlay.jpg is unlinked.
RestoreClearsOverlay(dir) == [dir EXCEPT !.overlay = FALSE]

\* Mutant: poster_overlay.jpg is unlinked before the upload is tried.
RestoreOriginalUnlinksFirst(st0, year, upload_ok) ==
    LET st == GetBackupPath(st0, year)
        cleared == [st EXCEPT ![year] = RestoreClearsOverlay(st[year])]
    IN  IF st[year].original = "none"
          THEN [store |-> st, result |-> "False", upload |-> NoPoster]
          ELSE IF upload_ok
            THEN [store |-> cleared, result |-> "True", upload |-> st[year].content]
            ELSE [store |-> cleared, result |-> "False", upload |-> NoPoster]

\* restore_original as a function of the store: upload_ok is whether uploadPoster
\* returned; upload is the poster sent to the server (NoPoster when none was).
RestoreOriginal(st0, year, upload_ok) ==
    LET st == GetBackupPath(st0, year)
    IN  IF st[year].original = "none"
          THEN [store |-> st, result |-> "False", upload |-> NoPoster]
          ELSE IF upload_ok
            THEN [store |-> [st EXCEPT ![year] = RestoreClearsOverlay(st[year])],
                  result |-> "True", upload |-> st[year].content]
            ELSE [store |-> st, result |-> "False", upload |-> NoPoster]

\* restore_original(library, title, plex_item, year): item is plex_item.
restore_original(year, item, upload_ok) ==
    LET r == RestoreOriginal(store, year, upload_ok)
    IN  /\ store' = r.store
        /\ host' = IF r.result = "True" THEN [host EXCEPT ![item] = r.upload] ELSE host
        /\ call' = Call("restore_original", year, item, FALSE, 0, r.result,
                        IF r.result = "True" /\ HasOverlay(store, year)
                          THEN "overlay removed" ELSE "none")
        /\ UNCHANGED <<done, rated, drawn, titles, restore_log>>
        /\ UNCHANGED orchVars

\* cleanup_backup: the directory of the key is removed.
cleanup_backup(year) ==
    LET st == GetBackupPath(store, year)
    IN  /\ store' = IF st[year].exists THEN [st EXCEPT ![year] = NoDir] ELSE st
        /\ call' = Call("cleanup_backup", year, 0, FALSE, 0, Bool(st[year].exists), "none")
        /\ UNCHANGED <<host, done, rated, drawn, titles, restore_log>>
        /\ UNCHANGED orchVars

\* DELETE /api/backups: the directory of the library is removed.
delete_backups(confirm) ==
    /\ store' = IF confirm = "DELETE" /\ (\E k \in Keys : store[k].exists)
                  THEN InitStore
                  ELSE store
    /\ call' = Call("delete_backups", 0, 0, FALSE, 0,
                    IF confirm # "DELETE" THEN "error: Must pass confirm=DELETE"
                    ELSE IF \E k \in Keys : store[k].exists THEN "deleted"
                    ELSE "error: No backups found", "none")
    /\ UNCHANGED <<host, done, rated, drawn, titles, restore_log>>
    /\ UNCHANGED orchVars

\* The keys the calls below are made with: the title alone, and the title with
\* the year of one of the two items (the other year occurs in metadata only).
CallKeys == {0, 2003}

\* Any sequence of calls of the poster cache.  The poster a backup downloads and
\* the item a restore uploads to are those of the item of that year.
NextStore ==
    \/ \E year \in CallKeys : has_backup(year)
    \/ \E year \in CallKeys : has_overlay(year)
    \/ \E year \in CallKeys, force \in BOOLEAN, download \in DownloadOutcomes,
          meta_year \in Keys, meta_ok \in BOOLEAN :
          backup_poster(year, force, host[2003], download, meta_year, meta_ok)
    \/ \E year \in CallKeys, image_ok \in BOOLEAN : save_overlay_poster(year, image_ok)
    \/ \E year \in CallKeys, upload_ok \in BOOLEAN :
          restore_original(year, 2003, upload_ok)
    \/ \E year \in CallKeys : cleanup_backup(year)
    \/ \E confirm \in {"DELETE", ""} : delete_backups(confirm)

SpecStore == Init /\ [][NextStore]_vars

(***************************************************************************)
(* One item of a pass: PlexPosterManager.process_movie, and one item of a   *)
(* restore pass.  Neither passes a year to the poster cache: the key is     *)
(* the title alone (directory 0).                                           *)
(***************************************************************************)

\* Most badge layers a poster carries in the model.
MaxLayers == 2

\* The one step of process_movie that goes wrong, if any.
Faults == {"none", "no tmdb id", "no rating", "no poster url", "download error",
           "no image", "metadata error", "compose error", "overlay save error",
           "upload error"}

\* What requests.get and img.verify come to under the fault.
DownloadUnder(fault) ==
    IF fault = "download error" THEN "error"
    ELSE IF fault = "no image" THEN "corrupt"
    ELSE "image"

\* Mutant: the cache is not consulted.
AlreadyProcessedNever(st, force) == FALSE

\* "Check if already backed up (skip if force=False)".
AlreadyProcessed(st, force) == ~force /\ HasBackup(st, 0)

\* Mutant: the item goes on without a backup.
BackupAbortsNever(result) == FALSE

\* "if not original_path: return False".
BackupAborts(result) == result = "None"

\* apply_to_poster: the badges are composited on the stored original.
Composite(poster) == Poster(poster.base, poster.layers + 1)

\* process_movie as a function of store and host: what it leaves, what it
\* returns and the step that decided that.
ProcessMovie(st, hs, item, force, fault) ==
    LET b  == BackupPoster(st, 0, force, hs[item], DownloadUnder(fault), item,
                           fault # "metadata error")
        ov == Composite(b.store[0].content)
        sv == SaveOverlayPoster(b.store, 0, fault # "overlay save error")
        Out(store1, host1, result, stage) ==
            [store |-> store1, host |-> host1, result |-> result, stage |-> stage]
    IN  IF fault = "no tmdb id" THEN Out(st, hs, "False", "no tmdb id")
        ELSE IF AlreadyProcessed(st, force)
          THEN Out(st, hs, "False", "already processed")
        ELSE IF fault = "no rating" THEN Out(st, hs, "False", "no rating")
        ELSE IF fault = "no poster url" THEN Out(st, hs, "False", "no poster url")
        ELSE IF BackupAborts(b.result)
          THEN Out(b.store, hs, "False", "backup failed")
        ELSE IF fault = "compose error"
          THEN Out(b.store, hs, "False", "compose failed")
        ELSE IF fault = "upload error"
          THEN Out(sv.store, hs, "False", "upload failed")
        ELSE Out(sv.store, [hs EXCEPT ![item] = ov], "True", "uploaded")

process_movie(item, force, fault) ==
    LET r == ProcessMovie(store, host, item, force, fault)
    IN  /\ r.host[item].layers <= MaxLayers
        /\ store' = r.store
        /\ host' = r.host
        /\ call' = Call("process_movie", 0, item, force, item, r.result, r.stage)
        /\ done' = IF force
                     THEN (IF r.result = "True" THEN {item} ELSE {})
                     ELSE (IF r.result = "True" THEN done \cup {item} ELSE done)
        /\ UNCHANGED <<rated, drawn, titles, restore_log>>
        /\ UNCHANGED orchVars

\* One item of the restore loop: skipped without backup or without overlay,
\* otherwise restored from the cache.
restore_item(item, upload_ok) ==
    LET r == RestoreOriginal(store, 0, upload_ok)
    IN  /\ IF ~HasBackup(store, 0)
             THEN /\ call' = Call("restore_item", 0, item, FALSE, 0, "skipped", "no backup")
                  /\ UNCHANGED <<store, host>>
             ELSE IF ~HasOverlay(store, 0)
               THEN /\ call' = Call("restore_item", 0, item, FALSE, 0, "skipped",
                                    "no overlay")
                    /\ UNCHANGED <<store, host>>
               ELSE /\ store' = r.store
                    /\ host' = IF r.result = "True"
                                 THEN [host EXCEPT ![item] = r.upload]
                                 ELSE host
                    /\ call' = Call("restore_item", 0, item, FALSE, 0,
                                    IF r.result = "True" THEN "restored" ELSE "failed",
                                    "restore_original")
        /\ done' = {}
        /\ UNCHANGED <<rated, drawn, titles, restore_log>>
        /\ UNCHANGED orchVars

\* Items processed (forced or not) and restored in any order.
NextItem ==
    \/ \E item \in Items, force \in BOOLEAN, fault \in Faults :
          process_movie(item, force, fault)
    \/ \E item \in Items, upload_ok \in BOOLEAN : restore_item(item, upload_ok)

SpecItem == Init /\ [][NextItem]_vars

(***************************************************************************)
(* Rating aggregation: the first part of process_movie, from the host's     *)
(* own rating entries to the ratings dict handed to the compositor.         *)
(***************************************************************************)

\* One entry of movie.ratings.
RatingEntry(type, image, value) == [type |-> type, image |-> image, value |-> value]

\* The entries the host may hold for an item (values on the host's 0-10 scale).
HostEntries ==
    {RatingEntry("audience", "themoviedb", 0), RatingEntry("audience", "themoviedb", 7),
     RatingEntry("audience", "imdb", 6), RatingEntry("critic", "rottentomatoes", 3),
     RatingEntry("audience", "rottentomatoes", 9), RatingEntry("critic", "imdb", 5)}

\* movie.ratings: at most one entry of each type and provenance.
HostRatings ==
    {es \in SUBSET HostEntries :
        \A e \in es, f \in es : (e.type = f.type /\ e.image = f.image) => e = f}

\* The source an entry is classified as, by (type, provenance marker).
Classify(e) ==
    IF e.type = "critic" /\ e.image = "rottentomatoes" THEN "rt_critic"
    ELSE IF e.type = "audience" /\ e.image = "rottentomatoes" THEN "rt_audience"
    ELSE IF e.type = "audience" /\ e.image = "imdb" THEN "imdb"
    ELSE IF e.type = "audience" /\ e.image = "themoviedb" THEN "tmdb"
    ELSE "none"

\* RT values are held on a 0-10 scale by the host: rating_value * 10.
Scale(source, value) ==
    IF source \in {"rt_critic", "rt_audience"} THEN value * 10 ELSE value

\* _extract_plex_ratings
ExtractPlexRatings(entries) ==
    [s \in Sources |->
        IF \E e \in entries : Classify(e) = s
          THEN Scale(s, (CHOOSE e \in entries : Classify(e) = s).value)
          ELSE Absent]

\* fetch_tmdb_rating: None, or vote_average.
TmdbAnswers == {Absent, 0, 8}

\* fetch_omdb_rating: None (or no imdbRating), or the text of imdbRating.
OmdbAnswers == {"None", "N/A", "6"}

\* float(imdb_data['imdb_rating']); a ValueError is passed over.
ParseFloat(text) == IF text = "6" THEN 6 ELSE Absent

\* fetch_mdblist_rating: the scores it holds (None when it holds neither).
MdblistAnswers == [rt_critic : {Absent, 85}, rt_audience : {Absent, 90}]

\* Mutant: the provider's value replaces the host's.
ProviderFirst(host_value, provider_value) ==
    IF provider_value # Absent THEN provider_value ELSE host_value

\* "if 'imdb' not in ratings", "if 'rt_critic' not in ratings and ...": a value
\* taken from the host is kept, the provider fills a gap.
HostFirst(host_value, provider_value) ==
    IF host_value # Absent THEN host_value ELSE provider_value

\* The ratings part of process_movie: the dict it builds, the fetchers it calls
\* (in order), the TMDB value it goes by, and whether it goes on (ok).
AggregateRatings(inputs) ==
    LET plex      == ExtractPlexRatings(inputs.entries)
        need_tmdb == plex["tmdb"] = Absent
        ok        == ~(need_tmdb /\ (inputs.tmdb_api = Absent \/ inputs.tmdb_api = 0))
        need_omdb == inputs.imdb_id /\ plex["imdb"] = Absent
        need_mdb  == /\ inputs.imdb_id
                     /\ (plex["rt_critic"] = Absent \/ plex["rt_audience"] = Absent)
        found     == [s \in Sources |->
                        IF s = "tmdb" THEN (IF need_tmdb THEN inputs.tmdb_api ELSE Absent)
                        ELSE IF s = "imdb"
                          THEN (IF need_omdb THEN ParseFloat(inputs.omdb) ELSE Absent)
                        ELSE (IF need_mdb THEN inputs.mdb[s] ELSE Absent)]
    IN  [rated |-> Rated(inputs, plex,
                         IF need_tmdb THEN inputs.tmdb_api ELSE plex["tmdb"],
                         IF ok THEN [s \in Sources |-> HostFirst(plex[s], found[s])]
                               ELSE NoRatings,
                         (IF need_tmdb THEN <<"tmdb">> ELSE << >>)
                           \o (IF ok /\ need_omdb THEN <<"omdb">> ELSE << >>)
                           \o (IF ok /\ need_mdb THEN <<"mdblist">> ELSE << >>)),
         ok    |-> ok]

\* process_movie with its ratings part spelled out, for the item whose ratings
\* rated.inputs holds: the item fails at "no rating" when the aggregation does
\* not go on.
process_movie_ratings(item, force) ==
    LET a == AggregateRatings(rated.inputs)
        r == ProcessMovie(store, host, item, force,
                          IF a.ok THEN "none" ELSE "no rating")
    IN  /\ r.host[item].layers <= MaxLayers
        /\ store' = r.store
        /\ host' = r.host
        /\ call' = Call("process_movie", 0, item, force, item, r.result, r.stage)
        /\ rated' = IF r.stage = "already processed"
                      THEN NotRated(rated.inputs)
                      ELSE a.rated
        /\ UNCHANGED <<done, drawn, titles, restore_log>>
        /\ UNCHANGED orchVars

\* An item with any ratings on the host and any answers of the providers.
InitRated ==
    /\ InitOrch
    /\ InitPosters
    /\ \E entries \in HostRatings, imdb_id \in BOOLEAN, tmdb_api \in TmdbAnswers,
          omdb \in OmdbAnswers, mdb \in MdblistAnswers :
          rated = NotRated(RatingInputs(entries, imdb_id, tmdb_api, omdb, mdb))
    /\ drawn = NoDrawn

\* The item is processed (forced or not) and restored in any order.
NextRated ==
    \/ \E force \in BOOLEAN : process_movie_ratings(2003, force)
    \/ restore_item(2003, TRUE)

SpecRated == InitRated /\ [][NextRated]_vars

(***************************************************************************)
(* The badge compositor: MultiRatingBadge.apply_to_poster.                  *)
(***************************************************************************)

\* (poster_width, poster_height) of the poster.
PosterSizes == {<<1000, 1500>>, <<500, 750>>}

\* The ratings dicts handed to the compositor.
RatingSets ==
    {r \in [Sources -> {Absent, 8, 42, 85}] :
        /\ r["tmdb"] \in {Absent, 8}
        /\ r["imdb"] \in {Absent, 8}
        /\ r["rt_audience"] \in {Absent, 85}
        /\ r["rt_critic"] # 8}

\* DEFAULT_BADGE_POSITIONS
DefaultPosition(s) ==
    IF s = "tmdb" THEN Position(TRUE, 2, 2)
    ELSE IF s = "imdb" THEN Position(TRUE, 70, 2)
    ELSE IF s = "rt_critic" THEN Position(TRUE, 2, 78)
    ELSE Position(TRUE, 70, 78)

\* The position maps: every choice of enabled sources, each at its default place.
PositionMaps ==
    {[s \in Sources |-> IF s \in on THEN DefaultPosition(s) ELSE NoPositions[s]] :
        on \in SUBSET Sources}

\* int((percent / 100) * length); for the percents and sizes above the float
\* product is the exact integer.
Pixels(percent, length) == (percent * length) \div 100

\* create_individual_badge: the RT logos depend on the score.
Logo(source, rating) ==
    IF source = "rt_critic"
      THEN (IF rating >= 60 THEN "rt_fresh" ELSE "rt_rotten")
    ELSE IF source = "rt_audience"
      THEN (IF rating >= 60 THEN "rt_audience_fresh" ELSE "rt_audience_rotten")
    ELSE source

\* "if badge_positions:" a dict with at least one key (None and {} are falsy).
IndividualMode(inputs) ==
    inputs.given /\ \E s \in Sources : inputs.positions[s].on

\* apply_to_poster: individual mode pastes one badge for each source of ratings
\* that is a key of badge_positions; otherwise one unified badge holds a row for
\* every source of ratings.
ApplyToPoster(inputs) ==
    IF IndividualMode(inputs)
      THEN Drawn(inputs, "individual",
                 {Badge(s, Pixels(inputs.positions[s].x, inputs.size[1]),
                        Pixels(inputs.positions[s].y, inputs.size[2]),
                        Logo(s, inputs.ratings[s])) :
                    s \in {s \in Sources : /\ inputs.ratings[s] # Absent
                                           /\ inputs.positions[s].on}},
                 {})
      ELSE Drawn(inputs, "unified", {},
                 {s \in Sources : inputs.ratings[s] # Absent})

apply_to_poster ==
    /\ drawn.mode = "none"
    /\ drawn' = ApplyToPoster(drawn.inputs)
    /\ UNCHANGED <<store, host, call, done, rated, titles, restore_log>>
    /\ UNCHANGED orchVars

\* Any ratings, any position map (or none) and any poster size.
InitDrawn ==
    /\ InitOrch
    /\ InitPosters
    /\ rated = NoRated
    /\ \E ratings \in RatingSets, given \in BOOLEAN, positions \in PositionMaps,
          size \in PosterSizes :
          /\ (~given => positions = NoPositions)
          /\ drawn = Drawn(CompositorInputs(ratings, given, positions, size),
                           "none", {}, {})

NextDrawn == apply_to_poster

SpecDrawn == InitDrawn /\ [][NextDrawn]_vars

(***************************************************************************)
(* restore_library_background over the cache: one pass after the other over *)
(* a library of two titles, each item looked up by its title alone.         *)
(***************************************************************************)

\* Largest number of restore passes run one after the other.
MaxPasses == 2

\* request.limit: None (0) or a number of items.
Limits == {0, 1}

\* all_items: library.all(), cut to request.limit.
LimitedItems(limit) ==
    IF limit # 0 /\ limit < Len(AllTitles) THEN limit ELSE Len(AllTitles)

\* The counters a restore pass ends with, and whether it ended in its except
\* branch.
PassCounters(rs, raised) ==
    [restored |-> rs.restored, failed |-> rs.failed, skipped |-> rs.skipped,
     progress |-> rs.progress, total |-> rs.total, raised |-> raised]

\* One item of the restore loop as a function of the title's directories and
\* posters: skipped without backup or without overlay, otherwise restored from the
\* cache; attempted says whether restore_original was called.
RestoreItem(st, hs, item, upload_ok) ==
    LET r == RestoreOriginal(st, 0, upload_ok)
    IN  IF ~HasBackup(st, 0) \/ ~HasOverlay(st, 0)
          THEN [store |-> st, host |-> hs, result |-> "skipped", attempted |-> FALSE]
          ELSE [store |-> r.store,
                host |-> IF r.result = "True" THEN [hs EXCEPT ![item] = r.upload] ELSE hs,
                result |-> IF r.result = "True" THEN "restored" ELSE "failed",
                attempted |-> TRUE]

\* An item of the library is processed, before any restore pass.
process_title(title, force, fault) ==
    LET r == ProcessMovie(titles[title].store, titles[title].host, TitleYear, force, fault)
    IN  /\ ~restore_state.is_restoring
        /\ restore_log = << >>
        /\ r.host[TitleYear].layers <= MaxLayers
        /\ titles' = [titles EXCEPT ![title] = [store |-> r.store, host |-> r.host]]
        /\ response' = NoResponse
        /\ UNCHANGED <<processing_state, restore_state, webhook_queue, tasks, cpu,
                       next_key, wh_log, store, host, call, done, rated, drawn,
                       restore_log>>

\* POST /api/restore accepted and the pass run up to its loop: the counters are
\* reset, then the host is asked for the library's items (ok), or the request
\* raises and the except branch ends the pass.
RestorePassBegin(limit, ok) ==
    /\ ~restore_state.is_restoring
    /\ Len(restore_log) < MaxPasses
    /\ LET reset == [restore_state EXCEPT
                        !.current_library = "Movies",
                        !.progress = 0, !.total = 0, !.restored = 0, !.failed = 0,
                        !.skipped = 0, !.current_item = 0]
       IN  IF ok
             THEN /\ restore_state' = [reset EXCEPT !.is_restoring = TRUE,
                                                    !.total = LimitedItems(limit)]
                  /\ UNCHANGED restore_log
             ELSE /\ restore_state' = [reset EXCEPT !.is_restoring = FALSE,
                                                    !.stop_requested = FALSE,
                                                    !.error = "error"]
                  /\ restore_log' = Append(restore_log, PassCounters(reset, TRUE))
    /\ response' = NoResponse
    /\ UNCHANGED <<processing_state, webhook_queue, tasks, cpu, next_key, wh_log,
                   store, host, call, done, rated, drawn, titles>>

\* One turn of the restore loop: the stop check, then the item.
RestorePassItem(upload_ok) ==
    /\ restore_state.is_restoring
    /\ restore_state.progress < restore_state.total
    /\ ~restore_state.stop_requested
    /\ LET i == restore_state.progress + 1
           title == AllTitles[i]
           r == RestoreItem(titles[title].store, titles[title].host, TitleYear, upload_ok)
       IN  /\ titles' = [titles EXCEPT ![title] = [store |-> r.store, host |-> r.host]]
           /\ restore_state' = [restore_state EXCEPT
                  !.progress = i,
                  !.current_item = i,
                  !.skipped = IF r.result = "skipped" THEN @ + 1 ELSE @,
                  !.restored = IF r.result = "restored" THEN @ + 1 ELSE @,
                  !.failed = IF r.result = "failed" THEN @ + 1 ELSE @]
    /\ response' = NoResponse
    /\ UNCHANGED <<processing_state, webhook_queue, tasks, cpu, next_key, wh_log,
                   store, host, call, done, rated, drawn, restore_log>>

\* POST /api/restore/stop while the pass sleeps after an item (the pass has no
\* suspension point before its first item).
RestorePassStop ==
    /\ restore_state.progress > 0
    /\ stop_restore

\* The loop is left after the last item or at the stop check: the flags are
\* cleared.
RestorePassEnd ==
    /\ restore_state.is_restoring
    /\ restore_state.progress = restore_state.total \/ restore_state.stop_requested
    /\ restore_state' = [restore_state EXCEPT
           !.is_restoring = FALSE, !.stop_requested = FALSE]
    /\ restore_log' = Append(restore_log, PassCounters(restore_state, FALSE))
    /\ response' = NoResponse
    /\ UNCHANGED <<processing_state, webhook_queue, tasks, cpu, next_key, wh_log,
                   store, host, call, done, rated, drawn, titles>>

\* Items are processed, then restore passes follow one another.
NextPasses ==
    \/ \E title \in DOMAIN InitTitles, force \in BOOLEAN, fault \in Faults :
          process_title(title, force, fault)
    \/ \E limit \in Limits, ok \in BOOLEAN : RestorePassBegin(limit, ok)
    \/ \E upload_ok \in BOOLEAN : RestorePassItem(upload_ok)
    \/ RestorePassStop
    \/ RestorePassEnd

SpecPasses == Init /\ [][NextPasses]_vars

(***************************************************************************)
(* Properties of the orchestrator.                                          *)
(***************************************************************************)

\* Task t is inside process_library_background: between the state reset at its
\* top and the clearing of the running flag.
InPass(t) ==
    /\ tasks[t].kind \notin {"none", "restore"}
    /\ tasks[t].pc \in {"init", "loop", "sleep", "end", "except"}

\* Task t is inside restore_library_background.
InRestore(t) ==
    /\ tasks[t].kind = "restore"
    /\ tasks[t].pc \in {"loop", "sleep", "end", "except"}

\* success + failed + skipped
Counted(ps) == ps.success + ps.failed + ps.skipped

\* C1: at any time at most one processing pass is active: two executions of
\* process_library_background never overlap.
C1_SingleFlight ==
    Cardinality({t \in AllIds : InPass(t)}) <= 1

\* C2: a start request (single library or batch) served while the running flag is
\* true returns the rejection, leaves every field of processing_state unchanged
\* and creates no task.
C2_StartRejectedWhileRunning ==
    [][(/\ response'.endpoint \in {"/api/process", "/api/process-batch"}
        /\ processing_state.is_processing)
       => (/\ response'.body = "error: Processing already in progress"
           /\ processing_state' = processing_state
           /\ tasks' = tasks)]_vars

\* C2 witness: a start request was rejected in the middle of a pass.
C2_Witness ==
    /\ response.endpoint \in {"/api/process", "/api/process-batch"}
    /\ response.body = "error: Processing already in progress"
    /\ processing_state.is_processing
    /\ processing_state.progress > 0

\* C4: when a stop is accepted while a pass is suspended on item k of n (k < n),
\* that pass attempts no further item, and when it ends the counts add up to k and
\* the running flag is false.
C4_StopAtItemBoundary ==
    [][\A t \in AllIds :
        tasks[t].stopk # 0 =>
          /\ ~(tasks[t].pc = "loop" /\ cpu = {t} /\ tasks'[t].pc = "sleep")
          /\ (tasks[t].pc = "end" /\ cpu = {t} /\ tasks'[t].pc = "return")
                => /\ Counted(processing_state') = tasks[t].stopk
                   /\ ~processing_state'.is_processing]_vars

\* C3: a restore pass and a processing pass never run at the same time.
C3_RestoreExcludesProcessing ==
    ~(\E t \in AllIds, u \in AllIds : InPass(t) /\ InRestore(u))

\* The pass of webhook job j has ended.
Ended(j) == \E k \in 1..Len(wh_log) : wh_log[k] = <<"end", j>>

\* C5: webhook jobs are processed in the order of their arrival and one at a
\* time: the worker's log is start 1, end 1, start 2, end 2, ...
C5_WebhookFifo ==
    \A k \in 1..Len(wh_log) :
        wh_log[k] = <<IF k % 2 = 1 THEN "start" ELSE "end", (k + 1) \div 2>>

\* C5 witness: the second job has started, after the first ended, next to a bulk pass.
C5_Witness ==
    /\ Len(wh_log) >= 3
    /\ \E t \in TaskIds : InPass(t)

\* C6: between the worker's last look at the running flag and the first statement
\* of its pass the flag is false and the worker owns the event loop.
C6_WorkerStartsIdle ==
    tasks[WorkerId].pc = "begin" =>
        (cpu = {WorkerId} /\ ~processing_state.is_processing)

\* C6 witness: the worker goes on to a job after it polled during a bulk pass.
C6_Witness ==
    /\ tasks[WorkerId].pc = "begin"
    /\ processing_state.current_library = "Shows"
    /\ processing_state.progress > 0

\* A cron step made a task for the scheduled run.
CronRunCreated ==
    \E t \in TaskIds :
        tasks[t].pc = "free" /\ tasks'[t].pc = "created" /\ tasks'[t].kind = "cron"

\* C7 (as claimed): a cron job that fires while webhook jobs are queued or while a
\* webhook job is being processed still gets its scheduled run.
C7_CronRunsDespiteWebhook ==
    [][(/\ response'.endpoint = "cron"
        /\ (webhook_queue # << >> \/ InPass(WorkerId)))
       => CronRunCreated]_vars

\* C7 (amended): a cron job gets its scheduled run exactly when the running flag
\* is false, whatever the webhook queue holds; when the flag is true (also when
\* the pass is a webhook job) it is skipped and nothing changes.
C7_CronRunsIffIdle ==
    [][response'.endpoint = "cron"
       => IF processing_state.is_processing
            THEN /\ ~CronRunCreated
                 /\ tasks' = tasks
                 /\ processing_state' = processing_state
                 /\ webhook_queue' = webhook_queue
            ELSE CronRunCreated]_vars

\* C7 witness: a scheduled run was created while a webhook job was waiting.
C7_Witness ==
    /\ response.endpoint = "cron"
    /\ response.body = "Cron: run created"
    /\ webhook_queue # << >>

BulkStarted ==
    /\ response'.endpoint = "/api/process"
    /\ response'.body = "started"

C9_OverlayImpliesBackup ==
    \A year \in Keys : HasOverlay(store, year) => HasBackup(store, year)

\* The directories that hold an original.
Originals(st) == {k \in Keys : st[k].original # "none"}

\* C10: an original is deleted only by an explicit purge (cleanup_backup or
\* delete_backups): no other call leaves fewer originals than it found.
C10_OriginalKeptUnlessPurged ==
    [][Cardinality(Originals(store')) < Cardinality(Originals(store))
       => \/ \E year \in Keys : cleanup_backup(year)
          \/ delete_backups("DELETE")]_vars

\* C12 (as claimed): restore_original on a key that had an overlay is followed by
\* has_overlay = false.
C12_RestoreClearsOverlay ==
    [][(call'.op = "restore_original" /\ HasOverlay(store, call'.key))
       => ~HasOverlay(store', call'.key)]_vars

\* C12 (amended): a restore_original that returns True on a key that had an
\* overlay is followed by has_overlay = false; one that returns False (no
\* original, or the upload raised) leaves the overlay as it was.
C12_SuccessfulRestoreClearsOverlay ==
    [][(call'.op = "restore_original" /\ HasOverlay(store, call'.key))
       => IF call'.result = "True"
            THEN ~HasOverlay(store', call'.key)
            ELSE HasOverlay(store', call'.key)]_vars

\* C12 witness: a restore returned True and removed the overlay it found.
C12_Witness ==
    /\ call.op = "restore_original"
    /\ call.result = "True"
    /\ call.stage = "overlay removed"
    /\ ~HasOverlay(store, call.key)

\* C18 (as claimed): after every backup call that returns success the stored
\* metadata is the metadata supplied to the call.
C18_BackupAlwaysWritesMetadata ==
    [][(call'.op = "backup_poster" /\ call'.result = "path")
       => store'[call'.key].metadata = [kind |-> "ok", year |-> call'.meta_year]]_vars

\* C18 (amended): a successful backup call that writes the original (none was
\* there, or force is set) stores the metadata supplied to it; a non-forced call
\* on a key whose original exists returns success and leaves original and
\* metadata as they were.
C18_BackupWritesMetadataWithOriginal ==
    [][(call'.op = "backup_poster" /\ call'.result = "path")
       => LET year == call'.key
              old  == GetBackupPath(store, year)[year]
          IN  IF call'.force \/ ~HasBackup(store, year)
                THEN store'[year].metadata =
                        [kind |-> "ok", year |-> call'.meta_year]
                ELSE /\ store'[year].metadata = old.metadata
                     /\ store'[year].content = old.content]_vars

\* C18 witness: a non-forced backup returned the existing original, whose
\* metadata names another year than the call would have stored.
C18_Witness ==
    /\ call.op = "backup_poster"
    /\ call.result = "path"
    /\ call.stage = "kept"
    /\ call.meta_year = 2003
    /\ store[call.key].metadata = [kind |-> "ok", year |-> 1975]

\* C19: a backup whose download fails or returns bytes that are no image returns
\* None, and has_backup is false afterwards if it was false before.
C19_FailedBackupLeavesNoOriginal ==
    [][(call'.op = "backup_poster" /\ call'.stage \in {"download error", "no image"})
       => /\ call'.result = "None"
          /\ ~HasBackup(store, call'.key) => ~HasBackup(store', call'.key)]_vars

\* C19 witness: a backup returned None and its directory holds no original.
C19_Witness ==
    /\ call.op = "backup_poster"
    /\ call.stage = "no image"
    /\ call.result = "None"
    /\ store[call.key].exists
    /\ ~HasBackup(store, call.key)

\* The stored year of a legacy record is absent (no readable metadata or no year
\* in it) or equals the year looked up.
LegacyYearAbsentOrEqual(dir, year) ==
    \/ dir.metadata.kind # "ok"
    \/ dir.metadata.year = 0
    \/ dir.metadata.year = year

\* C20: a year-aware lookup that misses while the legacy record exists renames the
\* legacy record into the year's key iff its stored year is absent or equal;
\* otherwise nothing moves and the lookup misses.  After the rename the legacy
\* key is gone.
C20_KeyMigration ==
    [][(/\ call'.op = "has_backup"
        /\ call'.key # 0
        /\ ~store[call'.key].exists
        /\ store[0].exists)
       => LET year == call'.key
          IN  IF LegacyYearAbsentOrEqual(store[0], year)
                THEN /\ store'[year] = store[0]
                     /\ store'[0] = NoDir
                     /\ call'.result = Bool(store[0].original # "none")
                ELSE /\ store' = store
                     /\ call'.result = "False"]_vars

\* C20 witness: a lookup with a year renamed the legacy record and found its
\* original.
C20_Witness ==
    /\ call.op = "has_backup"
    /\ call.stage = "migrated"
    /\ call.result = "True"
    /\ ~store[0].exists
    /\ store[call.key].metadata.year = call.key

(***************************************************************************)
(* Properties of one item's processing and restoring.                       *)
(***************************************************************************)

\* C11: processing is reversible: a stored original never carries an overlay, and
\* a restore that succeeds leaves the host showing the item's poster from before
\* its first overlay.
C11_Reversible ==
    [][/\ \A k \in Keys : store'[k].content.layers = 0
       /\ (call'.op = "restore_item" /\ call'.result = "restored")
             => host'[call'.item] = InitHost[call'.item]]_vars

\* C13: when the backup step of an item fails, no overlay is saved and nothing is
\* uploaded; and whenever process_movie changes the item's poster on the host, the
\* cache holds as original the poster the host showed before.
C13_OverlayOnlyAfterBackup ==
    [][call'.op = "process_movie"
       => /\ call'.stage = "backup failed"
             => (host' = host /\ store'[0].overlay = store[0].overlay)
          /\ call'.result = "True"
             => (/\ HasBackup(store', 0)
                 /\ store'[0].content = host[call'.item]
                 /\ host'[call'.item] = Composite(store'[0].content))]_vars

\* C13 witness: an item was aborted at its backup while the host shows it clean.
C13_Witness ==
    /\ call.op = "process_movie"
    /\ call.stage = "backup failed"
    /\ call.result = "False"
    /\ host[call.item].layers = 0
    /\ ~store[0].overlay

\* C14: an item that was processed successfully is not reprocessed by non-forced
\* passes: the step ends at the cache check (or before it) and changes neither
\* cache nor host.
C14_NonForcedIdempotent ==
    [][(call'.op = "process_movie" /\ ~call'.force /\ call'.item \in done)
       => /\ call'.stage \in {"no tmdb id", "already processed"}
          /\ store' = store
          /\ host' = host]_vars

\* C14 witness: a processed item was met again by a non-forced pass and skipped.
C14_Witness ==
    /\ call.op = "process_movie"
    /\ ~call.force
    /\ call.item \in done
    /\ call.stage = "already processed"
    /\ host[call.item].layers = 1

\* C15: after a successful restore of an item, the next non-forced processing of
\* the item does not skip it as already processed.
C15_RestoredItemIsProcessedAgain ==
    [][(/\ call.op = "restore_item"
        /\ call.result = "restored"
        /\ call'.op = "process_movie"
        /\ call'.item = call.item
        /\ ~call'.force)
       => call'.stage # "already processed"]_vars

\* The steps at which an item fails.
FailedStages == {"no rating", "no poster url", "backup failed", "compose failed",
                 "upload failed"}

\* C16: an item that failed at any step is attempted again by the next pass: it is
\* not skipped by the cache check.
C16_FailedItemIsRetried ==
    [][(/\ call.op = "process_movie"
        /\ call.result = "False"
        /\ call.stage \in FailedStages
        /\ call'.op = "process_movie"
        /\ call'.item = call.item)
       => call'.stage # "already processed"]_vars

\* C17: while the cache record belongs to another item of the same title,
\* processing or restoring an item is not skipped because of that record, does not
\* overwrite it and does not upload it to the item.
C17_RecordsPerYear ==
    [][(/\ call'.op \in {"process_movie", "restore_item"}
        /\ store[0].original = "image"
        /\ store[0].content.base # call'.item)
       => /\ call'.stage # "already processed"
          /\ store'[0].content = store[0].content
          /\ host'[call'.item].base = call'.item]_vars

(***************************************************************************)
(* Properties of the rating aggregation.                                    *)
(***************************************************************************)

\* C21: an item whose TMDB value is zero or missing, whether the host or the TMDB
\* provider supplied it, is never a success, and its processing changes neither
\* the cache nor the host.
C21_ZeroPrimaryIsSkipped ==
    [][(/\ call'.op = "process_movie"
        /\ call'.stage # "already processed"
        /\ rated'.primary \in {Absent, 0})
       => /\ call'.result # "True"
          /\ store' = store
          /\ host' = host]_vars

\* The fetcher that supplies a source.
Provider(s) ==
    IF s = "tmdb" THEN "tmdb" ELSE IF s = "imdb" THEN "omdb" ELSE "mdblist"

\* The fetchers named in a sequence of calls.
Consulted(seq) == {seq[k] : k \in 1..Len(seq)}

Shown(d) == {b.source : b \in d.badges} \cup d.rows

\* C23: called with a position map, the compositor draws exactly the sources that
\* are both in the ratings and in the map, each as its own badge at (x% of the
\* width, y% of the height); a source that is not in the map does not show, for
\* every map, the empty one included.
C23_OnlyMappedSourcesDrawn ==
    (drawn.mode # "none" /\ drawn.inputs.given)
       => LET in == drawn.inputs
          IN  /\ Shown(drawn) = {s \in Sources : /\ in.ratings[s] # Absent
                                                 /\ in.positions[s].on}
              /\ \A b \in drawn.badges :
                    /\ b.x * 100 = in.positions[b.source].x * in.size[1]
                    /\ b.y * 100 = in.positions[b.source].y * in.size[2]

(***************************************************************************)
(* Properties of the webhook.                                               *)
(***************************************************************************)

\* The event is one the handler is meant to queue.
Enqueues(event, enabled, has_library, target_library, allowed) ==
    /\ event = "library.new"
    /\ enabled
    /\ has_library
    /\ (allowed = {} \/ target_library \in allowed)

\* C24: a webhook request appends one entry for its library to the queue iff the
\* event is library.new, the webhook is enabled, the library is named and the
\* allow-list is empty or holds the library; every other request (a payload that
\* is not JSON included) is answered and leaves the queue as it was.  No request
\* changes processing_state or creates a task.
C24_EnqueueIffNewItemInScope ==
    [][\A event \in HookEvents, enabled \in BOOLEAN, has_library \in BOOLEAN,
          target_library \in Libs, allowed \in AllowLists, has_key \in BOOLEAN :
          plex_webhook(event, enabled, has_library, target_library, allowed, has_key)
            => /\ IF Enqueues(event, enabled, has_library, target_library, allowed)
                    THEN /\ Len(webhook_queue') = Len(webhook_queue) + 1
                         /\ webhook_queue'[Len(webhook_queue')].library = target_library
                         /\ response'.body = "queued"
                    ELSE /\ webhook_queue' = webhook_queue
                         /\ response'.body # "queued"
               /\ processing_state' = processing_state
               /\ tasks' = tasks]_vars

\* C24 witness: an event for a listed library was queued behind another one.
C24_Witness ==
    /\ response.endpoint = "/webhook/plex"
    /\ response.body = "queued"
    /\ Len(webhook_queue) = 2
    /\ webhook_queue[2].library = "Shows"

\* C25: a pass of the webhook worker has exactly one item, the one its event names.
C25_WorkerPassIsSingleItem ==
    (tasks[WorkerId].pc \in {"loop", "sleep", "end"})
       => (tasks[WorkerId].n = 1 /\ processing_state.total = 1)

(***************************************************************************)
(* Properties of batch runs, cron triggers and the end of a pass.           *)
(***************************************************************************)

\* Task t is a batch run that was accepted and is not yet over.
BatchAlive(t) == tasks[t].kind = "batch" /\ tasks[t].pc # "free"

\* C26: from the acceptance of a batch until the pass of its last library has
\* ended, no other task is inside a pass; the gap between two libraries of the
\* batch is part of that time.
C26_BatchHoldsLock ==
    \A t \in TaskIds :
        BatchAlive(t) => \A u \in AllIds \ {t} : ~InPass(u)

\* C27: a cron trigger that fires while the running flag is true is skipped: it
\* creates no task, queues nothing and leaves processing_state as it was.
C27_CronNoOpWhileRunning ==
    [][(response'.endpoint = "cron" /\ processing_state.is_processing)
       => /\ response'.body = "Cron: skipping, processing already in progress"
          /\ tasks' = tasks
          /\ webhook_queue' = webhook_queue
          /\ processing_state' = processing_state]_vars

\* C27 witness: a cron trigger was skipped in the middle of a pass.
C27_Witness ==
    /\ response.endpoint = "cron"
    /\ response.body = "Cron: skipping, processing already in progress"
    /\ processing_state.is_processing
    /\ processing_state.progress > 0
    /\ \E t \in TaskIds : InPass(t)

\* Task t leaves process_library_background in this step: by the end of the loop
\* or by the except branch.
PassEnds(t) ==
    /\ cpu = {t}
    /\ tasks[t].pc \in {"end", "except"}
    /\ tasks'[t].pc = "return"

\* The task in slot t moves to a lower slot: a task created before it is over.
MovesDown(t) ==
    \E u \in TaskIds : u < t /\ tasks[u].pc = "return" /\ tasks' = Release(u)

\* C28: every pass that starts ends (the tasks are kept in the lowest slots in
\* the order of their creation, so the pass of the task in slot t ends there or
\* the task moves to a lower slot, and in the lowest slot it ends); at the step in
\* which it ends the running flag and the stop flag are false, and a start request
\* served while the running flag is false is accepted.
C28_PassEndsAndResetsFlags ==
    /\ \A t \in TaskIds : ([]<>~InPass(t)) \/ ([]<><<MovesDown(t)>>_vars)
    /\ [][\A t \in TaskIds :
            PassEnds(t) => /\ ~processing_state'.is_processing
                           /\ ~processing_state'.stop_requested]_vars
    /\ [][(response'.endpoint = "/api/process" /\ ~processing_state.is_processing)
            => response'.body = "started"]_vars

\* C28 witness: a pass that was stopped before its last item has ended, and both
\* flags are false.
C28_Witness ==
    /\ \E t \in TaskIds : /\ tasks[t].pc = "return"
                          /\ tasks[t].stopk # 0
                          /\ tasks[t].i < tasks[t].n
    /\ ~processing_state.is_processing
    /\ ~processing_state.stop_requested

\* C29: a pass that fails while it connects to the host and fetches its items
\* ends at once: it attempted no item, the counts are zero, the running flag is
\* false and the error is recorded.
C29_FatalAtStartAborts ==
    [][\A t \in AllIds :
        (PassEnds(t) /\ tasks[t].pc = "except")
          => /\ tasks[t].i = 0
             /\ processing_state'.progress = 0
             /\ Counted(processing_state') = 0
             /\ ~processing_state'.is_processing
             /\ processing_state'.error # "None"]_vars

\* C29 witness: the second library of a run failed at its start, after the first
\* was processed.
C29_Witness ==
    /\ \E t \in TaskIds : /\ tasks[t].pc = "return"
                          /\ tasks[t].n = 0
                          /\ tasks[t].libs = <<"Shows">>
                          /\ tasks[t].kind = "batch"
    /\ processing_state.current_library = "Shows"
    /\ processing_state.error = "error"
    /\ ~processing_state.is_processing
    /\ Counted(processing_state) = 0

(***************************************************************************)
(* Failure of a restore.                                                    *)
(***************************************************************************)

\* C30 (as claimed): a restore_original that returns False leaves the cache and
\* the host exactly as they were.
C30_FailedRestoreChangesNothing ==
    [][(call'.op = "restore_original" /\ call'.result = "False")
       => (store' = store /\ host' = host)]_vars

\* C30 (amended): a restore_original that returns False (no original for the key,
\* or the upload raised) leaves the host as it was and changes no file of the
\* cache; has_backup and has_overlay of its key answer as before.  The one
\* change it can make is the rename of the title-only directory that the lookup
\* of a key with a year performs.
C30_FailedRestoreOnlyMigrates ==
    [][(call'.op = "restore_original" /\ call'.result = "False")
       => LET year == call'.key
          IN  /\ host' = host
              /\ store' = GetBackupPath(store, year)
              /\ HasBackup(store', year) = HasBackup(store, year)
              /\ HasOverlay(store', year) = HasOverlay(store, year)]_vars

\* C30 witness: the upload of a restore raised: the key still has its original
\* and its overlay, and the host shows what it showed.
C30_Witness ==
    /\ call.op = "restore_original"
    /\ call.result = "False"
    /\ call.key = 2003
    /\ HasBackup(store, call.key)
    /\ HasOverlay(store, call.key)
    /\ host = InitHost

(***************************************************************************)
(* Properties of the job state: stop flag, counters, reset.                 *)
(***************************************************************************)

\* C31: in every reachable state stop_requested implies is_processing, and the
\* stop flag of the restore state implies is_restoring; a stop request made while
\* idle is answered "idle" and changes neither state; a pass that begins while no
\* pass is running begins with no stop request pending.
C31_StopOnlyWhileRunning ==
    /\ [](/\ processing_state.stop_requested => processing_state.is_processing
          /\ restore_state.stop_requested => restore_state.is_restoring)
    /\ [][/\ (response'.endpoint = "/api/stop" /\ ~processing_state.is_processing)
               => /\ response'.body = "idle"
                  /\ processing_state' = processing_state
          /\ (response'.endpoint = "/api/restore/stop" /\ ~restore_state.is_restoring)
               => /\ response'.body = "idle"
                  /\ restore_state' = restore_state
          /\ (~processing_state.is_processing /\ processing_state'.is_processing)
               => ~processing_state'.stop_requested
          /\ (~restore_state.is_restoring /\ restore_state'.is_restoring)
               => ~restore_state'.stop_requested]_vars

\* Both stop flags are set, each while its own pass is running.
C31_Witness ==
    /\ processing_state.stop_requested
    /\ processing_state.is_processing
    /\ restore_state.stop_requested
    /\ restore_state.is_restoring

\* C32: in every reachable state 0 <= success+failed+skipped <= progress <= total,
\* and at every item boundary and after the pass (the only states in which another
\* task or request can look at the counters) success+failed+skipped = progress.
C32_CounterInvariant ==
    /\ 0 <= Counted(processing_state)
    /\ Counted(processing_state) <= processing_state.progress
    /\ processing_state.progress <= processing_state.total
    /\ Counted(processing_state) = processing_state.progress

\* Task t is in the item loop of a processing pass, or past it without an error.
PastInit(t) ==
    /\ tasks[t].kind \notin {"none", "restore"}
    /\ tasks[t].pc \in {"loop", "sleep", "end"}

\* C33: the snapshot of a pass carries nothing of an earlier pass: while a pass is
\* in its item loop or ends without error, processing_state holds no error.
C33_PassStartsClean ==
    (\E t \in AllIds : PastInit(t)) => processing_state.error = "None"

\* Task t runs a list of libraries: run_batch or _run_libraries_sequentially.
RunsList(t) == tasks[t].kind \in {"batch", "cron"}

\* C34: a stop request accepted during a library of a batch (manual or cron) ends
\* the whole batch: when the stopped pass returns, the batch task is over and does
\* not begin its next library.
C34_StopEndsBatch ==
    [][\A t \in TaskIds :
          (RunsList(t) /\ tasks[t].stopk # 0 /\ PassReturn(t))
             => tasks' = Release(t)]_vars

(***************************************************************************)
(* Properties of an item whose upload fails.                                *)
(***************************************************************************)

\* C35: the cache records an item as overlaid only if the overlay reached the
\* host: after a process_movie whose upload to the host failed, has_overlay of the
\* item is false.
C35_NoOverlayRecordWithoutUpload ==
    (call.op = "process_movie" /\ call.stage = "upload failed")
       => ~HasOverlay(store, call.key)

(***************************************************************************)
(* Properties of the webhook worker after a failed job.                     *)
(***************************************************************************)

RestoresOnlyOverlaid ==
    (restore_state.is_restoring /\ restore_state'.progress = restore_state.progress + 1)
      => LET title == AllTitles[restore_state'.progress]
             before == titles[title].store
         IN  /\ \A u \in DOMAIN titles : u # title => titles'[u] = titles[u]
             /\ IF HasBackup(before, 0) /\ HasOverlay(before, 0)
                   THEN /\ restore_state'.skipped = restore_state.skipped
                        /\ restore_state'.restored + restore_state'.failed
                             = restore_state.restored + restore_state.failed + 1
                   ELSE /\ restore_state'.skipped = restore_state.skipped + 1
                        /\ restore_state'.restored = restore_state.restored
                        /\ restore_state'.failed = restore_state.failed
                        /\ titles' = titles

\* The pass visited every item of the library and did not raise.
RanToEnd(pass) == ~pass.raised /\ pass.progress = Len(AllTitles)

\* C37 (as claimed): a restore pass uploads only for items with a backup and an
\* overlay and skips the others untouched, and a restore pass run directly after
\* a restore pass without failures restores nothing.
C37_SecondPassRestoresNothing ==
    /\ [][RestoresOnlyOverlaid]_vars
    /\ [](\A k \in 2..Len(restore_log) :
            restore_log[k - 1].failed = 0 => restore_log[k].restored = 0)

\* C37 (amended): a restore pass uploads only for items with a backup and an
\* overlay and skips the others untouched, and a restore pass run directly after
\* a restore pass that visited every item of the library without failures
\* restores nothing.
C37_PassAfterFullPassRestoresNothing ==
    /\ [][RestoresOnlyOverlaid]_vars
    /\ [](\A k \in 2..Len(restore_log) :
            (restore_log[k - 1].failed = 0 /\ RanToEnd(restore_log[k - 1]))
               => restore_log[k].restored = 0)

\* Both items were restored by a first pass; the second pass skipped both.
C37_Witness ==
    /\ Len(restore_log) = 2
    /\ restore_log[1].restored = 2
    /\ restore_log[1].failed = 0
    /\ restore_log[2].restored = 0
    /\ restore_log[2].skipped = 2

====
